---- MODULE Spec2Model ----
(***************************************************************************)
(* A model of the Hocuspocus server kernel                                 *)
(* (packages/server/src/Hocuspocus.ts): the extension list and the hook    *)
(* chain, the debouncer, the per-transport handshake, the document         *)
(* registry and the disconnect/store pipeline.                             *)
(*                                                                         *)
(* Seven specifications share the module:                                  *)
(*   SpecHooks  configure() and hooks() at the level of single handlers;   *)
(*   Spec       the handshake, the registry and the store pipeline of two  *)
(*              transports and one document name, where a hook chain is    *)
(*              one promise that is pending and then settles (its          *)
(*              handlers are SpecHooks' business);                         *)
(*   SpecMux    the handshakes of one transport that multiplexes two       *)
(*              document names, with the errors a hook may reject with     *)
(*              and what the server writes to the transport;               *)
(*   SpecStore  the debouncer and the store pipeline of one attached       *)
(*              document, with room for bursts longer than maxDebounce;    *)
(*   SpecLocal  the same pipeline under few updates, with and without an   *)
(*              origin Connection, and the history of its stores;          *)
(*   SpecClose  one transport attached to two documents whose Connections  *)
(*              are closed one by one;                                     *)
(*   SpecLive   one transport and one document name under the fairness of  *)
(*              the event loop.                                            *)
(***************************************************************************)
EXTENDS Integers, Sequences, FiniteSets, TLC

(***************************************************************************)
(* Part 1.  configure() and hooks()                                        *)
(***************************************************************************)

\* typeof a.priority === 'undefined' ? 100 : a.priority
DefaultPriority == 100

\* The hook names the model distinguishes.  onConnect has a default inline
\* handler (Hocuspocus.ts:58), onAuthenticate has none.
HookNames == {"onConnect", "onAuthenticate"}

\* The inline handlers this.configuration has from construction
\* (Hocuspocus.ts:55-70); onAuthenticate is not among them.
DefaultInlineHooks == {"onConfigure", "onConnect"}

\* The extensions a caller may pass to configure().  An extension is a record
\* with a name, the set of hooks it defines and, optionally, a priority; a
\* record without the priority field is an extension whose priority is
\* undefined.
ExtensionPool ==
    { [name |-> "high", hooks |-> {"onConnect"}, priority |-> 200],
      [name |-> "plain", hooks |-> {"onConnect", "onAuthenticate"}],
      [name |-> "low", hooks |-> {"onConnect"}, priority |-> 50],
      [name |-> "cent", hooks |-> {"onConnect"}, priority |-> 100] }

\* How many times configure() is called in one run.
MaxConfigure == 2

\* How many extensions one configure() call passes.
MaxExtensions == 2

VARIABLES
    extensions,     \* this.configuration.extensions
    inlineHooks,    \* the hooks this.configuration defines inline
    configured,     \* the extensions array of the latest configure() that gave one
    configureCalls, \* number of configure() calls so far
    hookRun         \* what the latest hooks() call did

hookVars == <<extensions, inlineHooks, configured, configureCalls, hookRun>>

PriorityOf(e) ==
    IF "priority" \in DOMAIN e THEN e.priority ELSE DefaultPriority

\* Array.prototype.sort with the comparator of configure(): descending
\* priority; the sort is stable, so it is an insertion of each element after
\* the last element whose priority is not smaller.
RECURSIVE InsertByPriority(_, _)
InsertByPriority(sorted, e) ==
    IF sorted = <<>> THEN <<e>>
    ELSE IF PriorityOf(Head(sorted)) >= PriorityOf(e)
         THEN <<Head(sorted)>> \o InsertByPriority(Tail(sorted), e)
         ELSE <<e>> \o sorted

RECURSIVE SortExtensions(_)
SortExtensions(exts) ==
    IF exts = <<>> THEN <<>>
    ELSE InsertByPriority(SortExtensions(SubSeq(exts, 1, Len(exts) - 1)),
                          exts[Len(exts)])

\* The object configure() pushes: the inline handlers of this.configuration.
\* It has no priority; a key whose value is undefined is not a hook.
SyntheticExtension(inline) == [name |-> "inline", hooks |-> inline]

\* get requiresAuthentication()
RequiresAuthenticationOf(exts) ==
    \E i \in 1..Len(exts) : "onAuthenticate" \in exts[i].hooks

\* extensions.filter(extension => typeof extension[name] === 'function')
RECURSIVE FilterHook(_, _)
FilterHook(exts, name) ==
    IF exts = <<>> THEN <<>>
    ELSE IF name \in Head(exts).hooks
         THEN <<Head(exts).name>> \o FilterHook(Tail(exts), name)
         ELSE FilterHook(Tail(exts), name)

\* One link of the promise chain that hooks() builds for an extension:
\*   chain.then(handler).catch(log; throw error) and then, if a callback was
\*   given, .then(callback).
\* st is the chain so far: its settled state, the error it carries, the
\* handlers and the callbacks invoked.  rejecting is the set of extensions
\* whose handler rejects; the error of extension x is "error-of-x", here x.
\* A catch that logs and does not rethrow: the chain goes on fulfilled.
ChainCatchSwallows(st) == [st EXCEPT !.state = "fulfilled"]

\* .catch(error => { ...; throw error }): the chain stays rejected with the
\* same error.
ChainCatch(st) == st

ChainLink(st, ext, rejecting, callback) ==
    LET afterHandler ==
            IF st.state = "fulfilled"
            THEN [st EXCEPT !.invoked = Append(@, ext),
                            !.state = IF ext \in rejecting THEN "rejected" ELSE "fulfilled",
                            !.error = IF ext \in rejecting THEN ext ELSE @]
            ELSE st
        afterCatch == IF afterHandler.state = "rejected"
                      THEN ChainCatch(afterHandler) ELSE afterHandler
    IN  IF callback /\ afterCatch.state = "fulfilled"
        THEN [afterCatch EXCEPT !.callbacks = Append(@, ext)]
        ELSE afterCatch

RECURSIVE ChainFold(_, _, _, _)
ChainFold(st, handlers, rejecting, callback) ==
    IF handlers = <<>> THEN st
    ELSE ChainFold(ChainLink(st, Head(handlers), rejecting, callback),
                   Tail(handlers), rejecting, callback)

\* hooks(name, payload, callback): the settled chain.
Hooks(exts, name, rejecting, callback) ==
    ChainFold([state |-> "fulfilled", error |-> "none",
               invoked |-> <<>>, callbacks |-> <<>>],
              FilterHook(exts, name), rejecting, callback)

NoRun == [name |-> "none", rejecting |-> {}, callback |-> FALSE,
          handlers |-> <<>>, state |-> "fulfilled", error |-> "none",
          invoked |-> <<>>, callbacks |-> <<>>]

RunOf(exts, name, rejecting, callback) ==
    LET r == Hooks(exts, name, rejecting, callback)
    IN  [name |-> name, rejecting |-> rejecting, callback |-> callback,
         handlers |-> FilterHook(exts, name), state |-> r.state,
         error |-> r.error, invoked |-> r.invoked, callbacks |-> r.callbacks]

\* The arrays of distinct pool extensions a configure() call may pass.
RECURSIVE SeqsOver(_, _)
SeqsOver(S, n) ==
    IF n = 0 THEN {<<>>}
    ELSE LET shorter == SeqsOver(S, n - 1)
         IN  shorter \cup
             { Append(s, e) : s \in { x \in shorter : Len(x) = n - 1 }, e \in S }

Distinct(s) == \A i, j \in 1..Len(s) : i # j => s[i] # s[j]

ExtensionArrays == { s \in SeqsOver(ExtensionPool, MaxExtensions) : Distinct(s) }

\* configure(configuration) with an extensions array: the spread replaces the
\* array, the array is sorted in place and the synthetic extension is pushed.
\* It ends with hooks('onConfigure').
ConfigureWith(exts, auth) ==
    /\ configureCalls < MaxConfigure
    /\ configureCalls' = configureCalls + 1
    /\ inlineHooks' = IF auth THEN inlineHooks \cup {"onAuthenticate"} ELSE inlineHooks
    /\ configured' = exts
    /\ extensions' = Append(SortExtensions(exts), SyntheticExtension(inlineHooks'))
    /\ hookRun' = RunOf(extensions', "onConfigure", {}, FALSE)

\* configure(configuration) without an extensions key: the spread keeps the
\* present array, which is sorted in place and pushed to again.
ConfigureKeep(auth) ==
    /\ configureCalls < MaxConfigure
    /\ configureCalls' = configureCalls + 1
    /\ inlineHooks' = IF auth THEN inlineHooks \cup {"onAuthenticate"} ELSE inlineHooks
    /\ configured' = configured
    /\ extensions' = Append(SortExtensions(extensions), SyntheticExtension(inlineHooks'))
    /\ hookRun' = RunOf(extensions', "onConfigure", {}, FALSE)

\* One hooks(name, payload, callback) call, run to its settlement.
RunHooks(name, rejecting, callback) ==
    /\ hookRun' = RunOf(extensions, name, rejecting, callback)
    /\ UNCHANGED <<extensions, inlineHooks, configured, configureCalls>>

ExtensionNames == { e.name : e \in ExtensionPool } \cup {"inline"}

\* The handlers that reject in one hooks() call: none, or those of one
\* extension (a later rejecting handler is never reached).
Rejections == {{}} \cup { {x} : x \in ExtensionNames }


(***************************************************************************)
(* Part 2.  The kernel: handshake, registry, debouncer, store pipeline     *)
(***************************************************************************)

\* The transports (accepted WebSockets) and the document names of a run.
\* Spec has two transports that ask for "doc"; SpecMux has one transport that
\* asks for both names (a multiplexed socket).
Transports == {"t1", "t2"}
Names == {"doc", "notes"}

\* Messages the transports send in a run, all together.
MaxMessages == 2

\* Document objects constructed in a run.
MaxDocuments == 2

\* The clock stops here.
MaxTime == 16

\* defaultConfiguration.debounce and .maxDebounce, in seconds (2000 ms and
\* 10000 ms); the clock below ticks in seconds.
Debounce == 2
MaxDebounce == 10

\* MessageType: the Auth message, and a Sync message carrying an update.
MessageTypes == {"Auth", "Sync"}

VARIABLES
    now,                    \* Date.now()
    ws,                     \* readyState of each transport ("none": not accepted yet)
    connection,             \* handleConnection's ConnectionConfiguration
    closeIdleConnection,    \* the idle-close timeout is pending
    documentConnections,    \* handleConnection's record: name -> true
    incomingMessageQueue,   \* handleConnection's record: name -> messages
    connectionEstablishing, \* handleConnection's record: name -> true
    received,               \* messages the transport has delivered so far
    onConnectPending,       \* unsettled hooks('onConnect') chains per transport and name
    onAuthenticatePending,  \* unsettled hooks('onAuthenticate') chains
    documents,              \* this.documents: name -> Document
    docs,                   \* every Document constructed so far
    timers,                 \* this.timers: id -> {start, timeout}
    setUpBy,                \* history: which chain last called setUpNewConnection
    arrived,                \* history: messages of this handshake, the starting Auth excepted
    delivered,              \* history: messages handed to the Connection
    burst,                  \* history: the latest burst of debounce calls of each id
    lastStore,              \* history: when onStoreDocument last started for each id
    storeLog,               \* history: updates, starts and returns of the stores of each id
    outbox,                 \* history: what the server sent to each transport, and its closes
    logging,                \* history: which of outbox and storeLog this run keeps
    sendPending             \* PermissionDenied sends whose callback has not run yet

kernelState == <<ws, connection, closeIdleConnection, documentConnections,
                 incomingMessageQueue, connectionEstablishing, received,
                 onConnectPending, onAuthenticatePending, documents, docs, timers,
                 setUpBy, arrived, delivered, burst, lastStore, storeLog, outbox,
                 logging,
                 sendPending>>

kernelVars == <<now, kernelState>>

vars == <<hookVars, kernelVars>>

\* A JavaScript record / Map as a function on the keys it has.
EmptyMap == [k \in {} |-> TRUE]
Put(f, k, v) == [x \in (DOMAIN f) \cup {k} |-> IF x = k THEN v ELSE f[x]]
Delete(f, k) == [x \in (DOMAIN f) \ {k} |-> f[x]]

\* The kernel's state as one value, so that the steps of a handler compose.
Cur ==
    [ ws |-> ws, connection |-> connection,
      closeIdleConnection |-> closeIdleConnection,
      documentConnections |-> documentConnections,
      incomingMessageQueue |-> incomingMessageQueue,
      connectionEstablishing |-> connectionEstablishing,
      received |-> received,
      onConnectPending |-> onConnectPending,
      onAuthenticatePending |-> onAuthenticatePending,
      documents |-> documents, docs |-> docs, timers |-> timers,
      setUpBy |-> setUpBy, arrived |-> arrived, delivered |-> delivered,
      burst |-> burst, lastStore |-> lastStore, storeLog |-> storeLog,
      outbox |-> outbox, logging |-> logging, sendPending |-> sendPending ]

\* The step is taken if it stays within the bound on constructed documents.
Commit(s) ==
    /\ Len(s.docs) <= MaxDocuments
    /\ ws' = s.ws
    /\ connection' = s.connection
    /\ closeIdleConnection' = s.closeIdleConnection
    /\ documentConnections' = s.documentConnections
    /\ incomingMessageQueue' = s.incomingMessageQueue
    /\ connectionEstablishing' = s.connectionEstablishing
    /\ received' = s.received
    /\ onConnectPending' = s.onConnectPending
    /\ onAuthenticatePending' = s.onAuthenticatePending
    /\ documents' = s.documents
    /\ docs' = s.docs
    /\ timers' = s.timers
    /\ setUpBy' = s.setUpBy
    /\ arrived' = s.arrived
    /\ delivered' = s.delivered
    /\ burst' = s.burst
    /\ lastStore' = s.lastStore
    /\ storeLog' = s.storeLog
    /\ outbox' = s.outbox
    /\ logging' = s.logging
    /\ sendPending' = s.sendPending
    /\ UNCHANGED <<now, hookVars>>

\* new Document(documentName, ...): isLoading is true, nobody is connected,
\* no onUpdate callback is set.  loading, creator and path say where the
\* createDocument call that constructed it stands and who awaits it; the
\* counters are the unsettled hook chains that captured this document.
\* closedPending and storesSinceClose are history: the last Connection closed
\* while a debounce entry was pending (and nobody attached since), and the
\* onStoreDocument chains started since that close.
NewDocument(name, t, path) ==
    [ name |-> name, isLoading |-> TRUE, connections |-> {}, onUpdate |-> FALSE,
      destroyed |-> 0, loading |-> "onLoadDocument", creator |-> t, path |-> path,
      onDisconnect |-> 0, onChange |-> 0,
      onStoreDocument |-> [update |-> 0, close |-> 0],
      afterStoreDocument |-> [update |-> 0, close |-> 0],
      stored |-> FALSE, storedWhileLoading |-> FALSE,
      closedPending |-> FALSE, storesSinceClose |-> 0 ]

\* The store history of an id before anything happened.  updatedSinceStart:
\* an update with an origin Connection came after the last start of
\* onStoreDocument; unprompted: a debounced run started without one.
\* returned: onStoreDocument has resolved; eventSince: an update or a
\* last-disconnect flush came after the last resolution; unchanged: two
\* resolutions followed each other with neither in between; outcome: how
\* the onStoreDocument chain that settled last did.
NoStoreLog ==
    [updatedSinceStart |-> FALSE, unprompted |-> FALSE,
     returned |-> FALSE, eventSince |-> FALSE, unchanged |-> FALSE,
     outcome |-> "none"]

\* The store history after an update, after a start of onStoreDocument from
\* the debouncer ("update") or the last disconnect ("close"), and after
\* onStoreDocument settled, in a run that keeps it.
NoteUpdate(s, log, hasConnection) ==
    IF "stores" \notin s.logging THEN log
    ELSE [log EXCEPT !.eventSince = TRUE,
                     !.updatedSinceStart = @ \/ hasConnection]

NoteStart(s, log, kind) ==
    IF "stores" \notin s.logging THEN log
    ELSE [log EXCEPT !.unprompted = @ \/ (kind = "update" /\ ~log.updatedSinceStart),
                     !.updatedSinceStart = FALSE,
                     !.eventSince = @ \/ kind = "close"]

NoteReturn(s, log, outcome) ==
    IF "stores" \notin s.logging THEN log
    ELSE IF outcome # "resolved" THEN [log EXCEPT !.outcome = outcome]
    ELSE [log EXCEPT !.unchanged = @ \/ (log.returned /\ ~log.eventSince),
                     !.returned = TRUE,
                     !.eventSince = FALSE,
                     !.outcome = outcome]

\* What a hook chain rejects with: nothing (reject()), an Error without code
\* and reason, an error that gives both, an error whose code the WebSocket
\* refuses.  A rejection that no caller looks into is NoError.
NoError == [isError |-> FALSE, code |-> "absent", reason |-> "absent"]
PlainError == [isError |-> TRUE, code |-> "absent", reason |-> "absent"]
CustomError == [isError |-> TRUE, code |-> "custom", reason |-> "custom"]
BadCodeError == [isError |-> TRUE, code |-> "invalid", reason |-> "absent"]
ErrorPool == {NoError, PlainError, CustomError, BadCodeError}

\* The close events of @hocuspocus/common, by name.
Forbidden == [isError |-> TRUE, code |-> "Forbidden", reason |-> "Forbidden"]
ResetConnection == [isError |-> TRUE, code |-> "ResetConnection", reason |-> "ResetConnection"]

\* (error = Forbidden) => ...: the default of the .catch parameter.
ErrorOrForbidden(error) == IF error.isError THEN error ELSE Forbidden

\* error.reason ?? 'permission-denied'
ReasonOrPermissionDenied(error) ==
    IF error.reason = "absent" THEN "permission-denied" ELSE error.reason

\* error.code ?? Forbidden.code
CodeOrForbidden(error) ==
    IF error.code = "absent" THEN "Forbidden" ELSE error.code

\* An entry of the outbox: a message sent (written: the socket was open) or a
\* close.  by is the outbox index of the PermissionDenied whose callback
\* closed (0: another closer); state follows a PermissionDenied send:
\* "pending" until its callback runs, then "closed", "kept" or "gone".  The
\* close of a rejected setup carries the document name of the setup.
Sent(kind, name, reason, cause, error, written, state) ==
    [kind |-> kind, name |-> name, reason |-> reason, code |-> "absent", by |-> 0,
     cause |-> cause, error |-> error, written |-> written, state |-> state]

Closed(code, cause, error, by) ==
    [kind |-> "close", name |-> "", reason |-> "", code |-> code, by |-> by,
     cause |-> cause, error |-> error, written |-> TRUE, state |-> "-"]

\* The outbox gains an entry, in a run that keeps it.
Log(s, t, entry) ==
    IF "outbox" \in s.logging THEN [s EXCEPT !.outbox[t] = Append(@, entry)] ELSE s

\* incoming.close(code, reason): the first close of an open socket counts.
CloseSocket(s, t, code, cause, error, by) ==
    IF s.ws[t] = "open"
    THEN Log([s EXCEPT !.ws[t] = "closing"], t, Closed(code, cause, error, by))
    ELSE s

\* try { incoming.close(error.code ?? Forbidden.code, ...) }
\* catch { incoming.close(fallback.code, fallback.reason) }
CloseOrFallback(s, t, error, fallback, cause, by) ==
    IF CodeOrForbidden(error) = "invalid"
    THEN CloseSocket(s, t, fallback, cause, error, by)
    ELSE CloseSocket(s, t, CodeOrForbidden(error), cause, error, by)

\* The func of handleDocumentUpdate and of onClose, called by the debouncer:
\* this.hooks('onStoreDocument', hookPayload) starts for the captured document.
\* The histories note the start: its time, and that the burst of the id, if
\* there is one, saw a store (flushed: a store the last disconnect forced).
StartStore(s, func) ==
    LET id == s.docs[func.document].name
    IN  [s EXCEPT !.docs[func.document].onStoreDocument[func.kind] = @ + 1,
                  !.docs[func.document].stored = TRUE,
                  !.docs[func.document].storesSinceClose =
                        IF s.docs[func.document].connections = {} THEN @ + 1 ELSE @,
                  !.docs[func.document].storedWhileLoading =
                        @ \/ s.docs[func.document].isLoading,
                  !.lastStore = Put(@, id, now),
                  !.storeLog[id] = NoteStart(s, @, func.kind),
                  !.burst = IF id \in DOMAIN @
                            THEN Put(@, id, [@[id] EXCEPT
                                    !.stores = @ + 1,
                                    !.flushed = @ \/ func.kind = "close"])
                            ELSE @]

\* const start = old?.start || Date.now(), with a start that never moves.
DebounceStartFresh(s, id) == now

\* const start = old?.start || Date.now()
DebounceStart(s, id) ==
    IF id \in DOMAIN s.timers /\ s.timers[id].start # 0
    THEN s.timers[id].start ELSE now

\* A run() that leaves the entry in this.timers.
DebounceRunKeepsEntry(s, id, func) == StartStore(s, func)

\* run(): this.timers.delete(id); func()
DebounceRun(s, id, func) ==
    StartStore([s EXCEPT !.timers = Delete(@, id)], func)

\* A debounce that leaves a pending timeout as it is.
DebounceOfKeepsTimeout(s, id, func, immediately) ==
    LET start == DebounceStart(s, id)
    IN  IF immediately THEN DebounceRun(s, id, func)
        ELSE IF now - start >= MaxDebounce THEN DebounceRun(s, id, func)
        ELSE IF id \in DOMAIN s.timers THEN s
        ELSE [s EXCEPT !.timers =
                Put(@, id, [start |-> start, deadline |-> now + Debounce, func |-> func])]

\* A debounce that takes no notice of immediately.
DebounceOfNeverImmediate(s, id, func, immediately) ==
    LET start == DebounceStart(s, id)
    IN  IF now - start >= MaxDebounce THEN DebounceRun(s, id, func)
        ELSE [s EXCEPT !.timers =
                Put(@, id, [start |-> start, deadline |-> now + Debounce, func |-> func])]

\* debounce(id, func, immediately); clearTimeout(old.timeout) is the
\* replacement or the removal of the entry, which holds the one timeout.
DebounceOf(s, id, func, immediately) ==
    LET start == DebounceStart(s, id)
    IN  IF immediately THEN DebounceRun(s, id, func)
        ELSE IF now - start >= MaxDebounce THEN DebounceRun(s, id, func)
        ELSE [s EXCEPT !.timers =
                Put(@, id, [start |-> start, deadline |-> now + Debounce, func |-> func])]

\* History of handleDocumentUpdate's debounce calls: a call that finds no
\* entry for the id begins a burst, a call that finds one continues it.
NoteCall(s, id) ==
    [s EXCEPT !.burst =
        IF id \in DOMAIN s.timers /\ id \in DOMAIN @
        THEN Put(@, id, [@[id] EXCEPT !.last = now, !.calls = @ + 1])
        ELSE Put(@, id, [first |-> now, last |-> now, calls |-> 1,
                         stores |-> 0, flushed |-> FALSE])]

\* A handleDocumentUpdate without the return for a missing connection.
HandleDocumentUpdateAlwaysDebounces(s, i, hasConnection) ==
    LET id == s.docs[i].name
        s1 == [s EXCEPT !.docs[i].onChange = @ + 1,
                        !.storeLog[id] = NoteUpdate(s, @, hasConnection)]
    IN  DebounceOf(NoteCall(s1, id), id, [kind |-> "update", document |-> i], FALSE)

\* handleDocumentUpdate(document, connection, update, request):
\* hooks('onChange') starts, and with an origin connection the debounce.
HandleDocumentUpdate(s, i, hasConnection) ==
    LET id == s.docs[i].name
        s1 == [s EXCEPT !.docs[i].onChange = @ + 1,
                        !.storeLog[id] = NoteUpdate(s, @, hasConnection)]
    IN  IF ~hasConnection THEN s1
        ELSE DebounceOf(NoteCall(s1, id), id, [kind |-> "update", document |-> i], FALSE)

\* An onClose callback that closes the socket whatever is attached.
SetUpOnCloseAlwaysCloses(s, t, d, event) ==
    CloseSocket([s EXCEPT !.documentConnections[t] = Delete(@, d),
                          !.incomingMessageQueue[t] = Delete(@, d),
                          !.connectionEstablishing[t] = Delete(@, d),
                          !.arrived[t][d] = <<>>,
                          !.delivered[t][d] = <<>>,
                          !.setUpBy[t][d] = "none"],
                t, event.code, "onClose", event, 0)

\* The callback setUpNewConnection registers with instance.onClose.
SetUpOnClose(s, t, d, event) ==
    LET s1 == [s EXCEPT !.documentConnections[t] = Delete(@, d),
                        !.incomingMessageQueue[t] = Delete(@, d),
                        !.connectionEstablishing[t] = Delete(@, d),
                        !.arrived[t][d] = <<>>,
                        !.delivered[t][d] = <<>>,
                        !.setUpBy[t][d] = "none"]
    IN  IF DOMAIN s1.documentConnections[t] = {}
        THEN CloseSocket(s1, t, event.code, "onClose", event, 0) ELSE s1

\* Connection.close(event) of the Connection of transport t on document i: if
\* the document still has the connection it is removed and the onClose
\* callbacks run: the kernel's (createConnection) starts hooks('onDisconnect'),
\* then setUpNewConnection's, once it is registered.
ConnectionClose(s, t, i, registered, event) ==
    IF t \notin s.docs[i].connections THEN s
    ELSE LET last == s.docs[i].connections = {t}
             s1 == [s EXCEPT !.docs[i].connections = @ \ {t},
                             !.docs[i].onDisconnect = @ + 1,
                             !.docs[i].closedPending =
                                 IF last
                                 THEN ~s.docs[i].isLoading /\ s.docs[i].name \in DOMAIN s.timers
                                 ELSE @,
                             !.docs[i].storesSinceClose = IF last THEN 0 ELSE @]
         IN  IF registered THEN SetUpOnClose(s1, t, s.docs[i].name, event) ELSE s1

RECURSIVE CloseAll(_, _, _)
CloseAll(s, i, ts) ==
    IF ts = {} THEN s
    ELSE LET t == CHOOSE x \in ts : TRUE
         IN  CloseAll(ConnectionClose(s, t, i, TRUE, ResetConnection), i, ts \ {t})

\* closeConnections(documentName)
CloseConnections(s, name) ==
    IF name \in DOMAIN s.documents
    THEN CloseAll(s, s.documents[name], s.docs[s.documents[name]].connections)
    ELSE s

\* The 'close' event of a transport: every Connection on it closes.
RECURSIVE CloseOnDocuments(_, _, _)
CloseOnDocuments(s, t, is) ==
    IF is = {} THEN s
    ELSE LET i == CHOOSE x \in is : TRUE
         IN  CloseOnDocuments(ConnectionClose(s, t, i, TRUE, NoError), t, is \ {i})

\* The callback of incoming.send(PermissionDenied, callback) for the pending
\* send (its error, its cause, its outbox index k), that closes whatever is
\* attached.
PermissionDeniedCallbackAlwaysCloses(s, t, send) ==
    CloseOrFallback(s, t, ErrorOrForbidden(send.error), "Forbidden", send.cause, send.k)

\* The callback of incoming.send(PermissionDenied, callback): the close, if no
\* document is attached on the transport.
PermissionDeniedCallback(s, t, send) ==
    IF DOMAIN s.documentConnections[t] = {}
    THEN CloseOrFallback(s, t, ErrorOrForbidden(send.error), "Forbidden",
                         send.cause, send.k)
    ELSE s

\* The .catch of the chain that called setUpNewConnection, when it rejects
\* with error; cause says which step rejected.  After onAuthenticate:
\* PermissionDenied is sent and the close waits for the send's callback.
\* After onConnect: the socket is closed.
SetUpRejected(s, t, d, path, error, cause) ==
    IF path = "onAuthenticate"
    THEN Log([s EXCEPT !.sendPending[t] =
                    Append(@, [error |-> error, cause |-> cause,
                               k |-> IF "outbox" \in s.logging
                                     THEN Len(s.outbox[t]) + 1 ELSE 0])],
             t, Sent("PermissionDenied", d,
                     ReasonOrPermissionDenied(ErrorOrForbidden(error)),
                     cause, error, s.ws[t] = "open", "pending"))
    ELSE LET s1 == CloseOrFallback(s, t, ErrorOrForbidden(error), "Unauthorized", cause, 0)
         IN  IF Len(s1.outbox[t]) > Len(s.outbox[t])
             THEN [s1 EXCEPT !.outbox[t][Len(s1.outbox[t])].name = d]
             ELSE s1

HasSync(q) == \E k \in 1..Len(q) : q[k].type = "Sync"

\* incomingMessageQueue[documentName].forEach(input => incoming.emit('message', input)):
\* the Connection gets the queued messages in the queue's order; a queued
\* update reaches handleDocumentUpdate if the document's onUpdate is set.
Replay(s, t, d, i) ==
    LET q == s.incomingMessageQueue[t][d]
        s1 == [s EXCEPT !.delivered[t][d] = @ \o q]
    IN  IF HasSync(q) /\ s1.docs[i].onUpdate /\ t \in s1.docs[i].connections
        THEN HandleDocumentUpdate(s1, i, TRUE)
        ELSE s1

\* setUpNewConnection after createDocument returned document i:
\* createConnection (the Connection joins the document; a socket that is
\* closing or closed closes it at once), documentConnections, the replay.
Attach(s, t, d, i, path) ==
    LET s1 == [s EXCEPT !.docs[i].connections = @ \cup {t},
                        !.docs[i].closedPending = FALSE]
        s2 == IF s1.ws[t] \in {"closing", "closed"}
              THEN ConnectionClose(s1, t, i, FALSE, NoError) ELSE s1
        s3 == [s2 EXCEPT !.documentConnections[t] = Put(@, d, TRUE)]
    IN  IF d \in DOMAIN s3.incomingMessageQueue[t]
        THEN Replay(s3, t, d, i)
        ELSE SetUpRejected(s3, t, d, path, PlainError, "replay")

\* setUpNewConnection(documentName) up to its first suspension:
\* clearTimeout(closeIdleConnection), then createDocument, which returns the
\* registered document or constructs and registers one and awaits
\* hooks('onLoadDocument').
SetUpNewConnection(s, t, d, path) ==
    LET s1 == [s EXCEPT !.closeIdleConnection[t] = FALSE,
                        !.setUpBy[t][d] = path]
    IN  IF d \in DOMAIN s1.documents
        THEN Attach(s1, t, d, s1.documents[d], path)
        ELSE [s1 EXCEPT !.docs = Append(@, NewDocument(d, t, path)),
                        !.documents = Put(@, d, Len(s1.docs) + 1)]

\* this.documents.delete(document.name); document.destroy()
RemoveAndDestroy(s, i) ==
    [s EXCEPT !.documents = Delete(@, s.docs[i].name),
              !.docs[i].destroyed = @ + 1]

\* incomingMessageQueue[documentName].push(data)
QueuePushFront(q, m) == <<m>> \o q

QueuePush(q, m) == Append(q, m)

\* The .then of hooks('onConnect'): with authentication required, or a
\* connection already establishing, it returns.
OnConnectThenIgnoresAuth(s, t, d) ==
    IF d \in DOMAIN s.connectionEstablishing[t]
    THEN s
    ELSE SetUpNewConnection(
            [s EXCEPT !.connectionEstablishing[t] = Put(@, d, TRUE)], t, d, "onConnect")

OnConnectThen(s, t, d) ==
    IF s.connection[t].requiresAuthentication \/ d \in DOMAIN s.connectionEstablishing[t]
    THEN s
    ELSE SetUpNewConnection(
            [s EXCEPT !.connectionEstablishing[t] = Put(@, d, TRUE)], t, d, "onConnect")

\* handleQueueingMessage(data)
HandleQueueingMessage(s, t, d, m) ==
    IF m.type = "Auth" /\ d \notin DOMAIN s.connectionEstablishing[t]
    THEN [s EXCEPT !.connectionEstablishing[t] = Put(@, d, TRUE),
                   !.onAuthenticatePending[t][d] = @ + 1]
    ELSE [s EXCEPT !.incomingMessageQueue[t][d] = QueuePush(@, m),
                   !.arrived[t][d] = Append(@, m)]

\* messageHandler(data) for a document that has no Connection on this transport
MessageHandler(s, t, d, m) ==
    IF d \notin DOMAIN s.incomingMessageQueue[t]
    THEN HandleQueueingMessage(
            [s EXCEPT !.incomingMessageQueue[t] = Put(@, d, <<>>),
                      !.onConnectPending[t][d] = @ + 1], t, d, m)
    ELSE HandleQueueingMessage(s, t, d, m)

\* The documents that hold a Connection of transport t.
DocumentsOf(s, t) == { i \in 1..Len(s.docs) : t \in s.docs[i].connections }

\* The document the Connection of t for name d belongs to.
ConnectedDocument(s, t, d) ==
    { i \in DocumentsOf(s, t) : s.docs[i].name = d }

(***************************************************************************)
(* The actions                                                             *)
(***************************************************************************)

RECURSIVE SumOver(_, _)
SumOver(f, S) ==
    IF S = {} THEN 0
    ELSE LET x == CHOOSE y \in S : TRUE IN f[x] + SumOver(f, S \ {x})

TotalReceived == SumOver(received, Transports)

\* handleConnection(incoming, request).  Transports are interchangeable, so
\* they are accepted in one order.
HandleConnection(t) ==
    /\ ws[t] = "none"
    /\ t = "t2" => ws["t1"] # "none"
    /\ Commit([Cur EXCEPT
            !.ws[t] = "open",
            !.closeIdleConnection[t] = TRUE,
            !.connection[t] =
                [requiresAuthentication |-> RequiresAuthenticationOf(extensions),
                 isAuthenticated |-> FALSE]])

\* The idle timeout fires: incoming.close(Unauthorized.code, ...)
CloseIdle(t) ==
    /\ closeIdleConnection[t]
    /\ Commit(CloseSocket([Cur EXCEPT !.closeIdleConnection[t] = FALSE], t,
                           "Unauthorized", "idle", NoError, 0))

\* A message arrives on an open transport.  For an attached document
\* messageHandler returns and the Connection handles the message; an update
\* it carries is applied and reaches handleDocumentUpdate through onUpdate.
Receive(t, d, type) ==
    /\ ws[t] = "open"
    /\ LET m == [type |-> type, n |-> received[t] + 1]
           s1 == [Cur EXCEPT !.received[t] = @ + 1]
       IN  IF d \in DOMAIN documentConnections[t]
           THEN LET s2 == [s1 EXCEPT !.delivered[t][d] = Append(@, m),
                                     !.arrived[t][d] = Append(@, m)]
                    is == ConnectedDocument(s2, t, d)
                IN  IF type = "Sync" /\ is # {} /\ s2.docs[CHOOSE i \in is : TRUE].onUpdate
                    THEN Commit(HandleDocumentUpdate(s2, CHOOSE i \in is : TRUE, TRUE))
                    ELSE Commit(s2)
           ELSE Commit(MessageHandler(s1, t, d, m))

\* hooks('onConnect') settles: resolved, or rejected with error.
OnConnectSettles(t, d, ok, error) ==
    /\ onConnectPending[t][d] > 0
    /\ LET s1 == [Cur EXCEPT !.onConnectPending[t][d] = @ - 1]
       IN  IF ok THEN Commit(OnConnectThen(s1, t, d))
           ELSE Commit(SetUpRejected(s1, t, d, "onConnect", error, "onConnect"))

\* hooks('onAuthenticate') settles: on success isAuthenticated, the
\* Authenticated message and setUpNewConnection; on failure PermissionDenied
\* and, once sent, the close unless a document is attached.  A chain without
\* handlers resolves.
OnAuthenticateSettles(t, d, ok, error) ==
    /\ onAuthenticatePending[t][d] > 0
    /\ ok \/ FilterHook(extensions, "onAuthenticate") # <<>>
    /\ LET s1 == [Cur EXCEPT !.onAuthenticatePending[t][d] = @ - 1]
       IN  IF ok
           THEN Commit(SetUpNewConnection(
                    Log([s1 EXCEPT !.connection[t].isAuthenticated = TRUE], t,
                        Sent("Authenticated", d, "", "onAuthenticate",
                             NoError, s1.ws[t] = "open", "-")),
                    t, d, "onAuthenticate"))
           ELSE Commit(SetUpRejected(s1, t, d, "onAuthenticate", error, "onAuthenticate"))

\* The callback of the oldest pending PermissionDenied send runs.  The outbox
\* entry of the send notes what the callback found: a document attached
\* ("kept"), an open socket to close ("closed"), or a socket already closing
\* ("gone").
PermissionDeniedSent(t) ==
    /\ sendPending[t] # <<>>
    /\ LET send == Head(sendPending[t])
           kept == DOMAIN documentConnections[t] # {}
           s1 == [Cur EXCEPT !.sendPending[t] = Tail(@)]
           s2 == IF "outbox" \in logging
                 THEN [s1 EXCEPT !.outbox[t][send.k].state =
                                        IF kept THEN "kept"
                                        ELSE IF ws[t] = "open" THEN "closed" ELSE "gone"]
                 ELSE s1
       IN  Commit(PermissionDeniedCallback(s2, t, send))

\* hooks('onLoadDocument') of createDocument settles.  On failure:
\* closeConnections(documentName), documents.delete(documentName), throw.
OnLoadDocumentSettles(i, ok) ==
    /\ i \in 1..Len(docs)
    /\ docs[i].loading = "onLoadDocument"
    /\ IF ok
       THEN Commit([Cur EXCEPT !.docs[i].isLoading = FALSE,
                               !.docs[i].loading = "afterLoadDocument"])
       ELSE LET s1 == CloseConnections(Cur, docs[i].name)
                s2 == [s1 EXCEPT !.documents = Delete(@, docs[i].name),
                                 !.docs[i].loading = "failed"]
            IN  Commit(SetUpRejected(s2, docs[i].creator, docs[i].name, docs[i].path,
                                     PlainError, "onLoadDocument"))

\* hooks('afterLoadDocument') settles: on success document.onUpdate(...) is
\* set, createDocument returns and setUpNewConnection goes on.
AfterLoadDocumentSettles(i, ok) ==
    /\ i \in 1..Len(docs)
    /\ docs[i].loading = "afterLoadDocument"
    /\ IF ok
       THEN Commit(Attach([Cur EXCEPT !.docs[i].onUpdate = TRUE,
                                      !.docs[i].loading = "loaded"],
                          docs[i].creator, docs[i].name, i, docs[i].path))
       ELSE Commit(SetUpRejected([Cur EXCEPT !.docs[i].loading = "afterLoadFailed"],
                                 docs[i].creator, docs[i].name, docs[i].path,
                                 PlainError, "afterLoadDocument"))

\* The transport closes (the client went away, or the close the server asked
\* for completed): every Connection on it closes.
SocketClosed(t) ==
    /\ ws[t] \in {"open", "closing"}
    /\ Commit(CloseOnDocuments([Cur EXCEPT !.ws[t] = "closed",
                                           !.closeIdleConnection[t] = FALSE],
                               t, DocumentsOf(Cur, t)))

\* A disconnect that stores whatever the document's isLoading says.
OnDisconnectThenStoresAlways(s, i) ==
    IF s.docs[i].connections # {} THEN s
    ELSE DebounceOf(s, s.docs[i].name, [kind |-> "close", document |-> i], TRUE)

\* The .then of hooks('onDisconnect') in the kernel's onClose.
OnDisconnectThen(s, i) ==
    IF s.docs[i].connections # {} THEN s
    ELSE IF ~s.docs[i].isLoading
         THEN DebounceOf(s, s.docs[i].name, [kind |-> "close", document |-> i], TRUE)
         ELSE RemoveAndDestroy(s, i)

\* hooks('onDisconnect') of the kernel's onClose settles; a rejection is not
\* handled and nothing follows it.
OnDisconnectSettles(i, ok) ==
    /\ i \in 1..Len(docs)
    /\ docs[i].onDisconnect > 0
    /\ LET s1 == [Cur EXCEPT !.docs[i].onDisconnect = @ - 1]
       IN  IF ok THEN Commit(OnDisconnectThen(s1, i)) ELSE Commit(s1)

\* A .catch that rethrows every error.
OnStoreDocumentCatchRethrows(s, i, kind, outcome) ==
    IF outcome # "resolved" THEN s
    ELSE [s EXCEPT !.docs[i].afterStoreDocument[kind] = @ + 1]

\* The .catch and .then behind hooks('onStoreDocument', hookPayload): an error
\* with a message is rethrown and nothing follows, otherwise
\* hooks('afterStoreDocument') starts.
OnStoreDocumentCatch(s, i, kind, outcome) ==
    IF outcome = "message" THEN s
    ELSE [s EXCEPT !.docs[i].afterStoreDocument[kind] = @ + 1]

\* hooks('onStoreDocument') settles: resolved, rejected without a message
\* (swallowed), or rejected with a message (rethrown, nothing follows).
OnStoreDocumentSettles(i, kind, outcome) ==
    /\ i \in 1..Len(docs)
    /\ docs[i].onStoreDocument[kind] > 0
    /\ LET id == docs[i].name
           s1 == [Cur EXCEPT !.docs[i].onStoreDocument[kind] = @ - 1]
           s2 == [s1 EXCEPT !.storeLog[id] = NoteReturn(s1, @, outcome)]
       IN  Commit(OnStoreDocumentCatch(s2, i, kind, outcome))

\* hooks('afterStoreDocument') settles; on the disconnect path its .then
\* removes the document unless a connection has arrived.
AfterStoreDocumentSettles(i, kind, ok) ==
    /\ i \in 1..Len(docs)
    /\ docs[i].afterStoreDocument[kind] > 0
    /\ LET s1 == [Cur EXCEPT !.docs[i].afterStoreDocument[kind] = @ - 1]
       IN  IF kind = "close" /\ ok /\ s1.docs[i].connections = {}
           THEN Commit(RemoveAndDestroy(s1, i))
           ELSE Commit(s1)

\* The timeout of a debounce entry fires: run().
TimerFires(id) ==
    /\ id \in DOMAIN timers
    /\ timers[id].deadline = now
    /\ Commit(DebounceRun(Cur, id, timers[id].func))

\* Time passes, never beyond a pending timeout.  Only differences of clock
\* readings are observed, so the clock stands still while no timer is set.
Tick ==
    /\ now < MaxTime
    /\ DOMAIN timers # {}
    /\ \A id \in DOMAIN timers : timers[id].deadline > now
    /\ now' = now + 1
    /\ UNCHANGED <<hookVars, kernelState>>

InitKernel ==
    /\ now = 1
    /\ ws = [t \in Transports |-> "none"]
    /\ connection = [t \in Transports |->
                        [requiresAuthentication |-> FALSE, isAuthenticated |-> FALSE]]
    /\ closeIdleConnection = [t \in Transports |-> FALSE]
    /\ documentConnections = [t \in Transports |-> EmptyMap]
    /\ incomingMessageQueue = [t \in Transports |-> EmptyMap]
    /\ connectionEstablishing = [t \in Transports |-> EmptyMap]
    /\ received = [t \in Transports |-> 0]
    /\ onConnectPending = [t \in Transports |-> [d \in Names |-> 0]]
    /\ onAuthenticatePending = [t \in Transports |-> [d \in Names |-> 0]]
    /\ documents = EmptyMap
    /\ docs = <<>>
    /\ timers = EmptyMap
    /\ setUpBy = [t \in Transports |-> [d \in Names |-> "none"]]
    /\ arrived = [t \in Transports |-> [d \in Names |-> <<>>]]
    /\ delivered = [t \in Transports |-> [d \in Names |-> <<>>]]
    /\ burst = EmptyMap
    /\ lastStore = EmptyMap
    /\ storeLog = [d \in Names |-> NoStoreLog]
    /\ outbox = [t \in Transports |-> <<>>]
    /\ sendPending = [t \in Transports |-> <<>>]

\* The server after new Hocuspocus(): nothing configured yet.
InitHooks ==
    /\ extensions = <<>>
    /\ inlineHooks = DefaultInlineHooks
    /\ configured = <<>>
    /\ configureCalls = 0
    /\ hookRun = NoRun

\* The server after new Hocuspocus(configuration), the configuration giving
\* an inline onAuthenticate or not.
InitConfigured ==
    \E auth \in BOOLEAN :
        /\ inlineHooks = IF auth THEN DefaultInlineHooks \cup {"onAuthenticate"}
                         ELSE DefaultInlineHooks
        /\ configured = <<>>
        /\ configureCalls = 1
        /\ extensions = <<SyntheticExtension(inlineHooks)>>
        /\ hookRun = RunOf(extensions, "onConfigure", {}, FALSE)

Init == InitConfigured /\ InitKernel /\ logging = {}

\* The same server in a run that keeps the outbox.
InitMux == InitConfigured /\ InitKernel /\ logging = {"outbox"}

Next ==
    \/ \E t \in Transports : HandleConnection(t)
    \/ \E t \in Transports : CloseIdle(t)
    \/ \E t \in Transports, type \in MessageTypes :
          TotalReceived < MaxMessages /\ Receive(t, "doc", type)
    \/ \E t \in Transports, d \in Names : OnConnectSettles(t, d, TRUE, NoError)
    \/ \E t \in Transports, d \in Names : OnConnectSettles(t, d, FALSE, PlainError)
    \/ \E t \in Transports, d \in Names : OnAuthenticateSettles(t, d, TRUE, NoError)
    \/ \E t \in Transports, d \in Names : OnAuthenticateSettles(t, d, FALSE, PlainError)
    \/ \E t \in Transports : PermissionDeniedSent(t)
    \/ \E i \in 1..MaxDocuments, ok \in BOOLEAN : OnLoadDocumentSettles(i, ok)
    \/ \E i \in 1..MaxDocuments, ok \in BOOLEAN : AfterLoadDocumentSettles(i, ok)
    \/ \E t \in Transports : SocketClosed(t)
    \/ \E i \in 1..MaxDocuments, ok \in BOOLEAN : OnDisconnectSettles(i, ok)
    \/ \E i \in 1..MaxDocuments, kind \in {"update", "close"},
          outcome \in {"resolved", "silent", "message"} :
            OnStoreDocumentSettles(i, kind, outcome)
    \/ \E i \in 1..MaxDocuments, kind \in {"update", "close"}, ok \in BOOLEAN :
            AfterStoreDocumentSettles(i, kind, ok)
    \/ \E id \in Names : TimerFires(id)
    \/ Tick

Spec == Init /\ [][Next]_vars

NextHooks ==
    \/ \E exts \in ExtensionArrays, auth \in BOOLEAN :
          ConfigureWith(exts, auth) /\ UNCHANGED kernelVars
    \/ \E auth \in BOOLEAN : ConfigureKeep(auth) /\ UNCHANGED kernelVars
    \/ \E name \in HookNames, rejecting \in Rejections, callback \in BOOLEAN :
          RunHooks(name, rejecting, callback) /\ UNCHANGED kernelVars

\* new Hocuspocus() before any connection is accepted.
InitServer == InitHooks /\ InitKernel /\ logging = {}

SpecHooks == InitServer /\ [][NextHooks]_vars

(***************************************************************************)
(* One transport that multiplexes two documents                            *)
(***************************************************************************)

\* Messages the transport sends in a run of SpecMux.
MaxMuxMessages == 2

NextMux ==
    \/ HandleConnection("t1")
    \/ CloseIdle("t1")
    \/ \E d \in Names : received["t1"] < MaxMuxMessages /\ Receive("t1", d, "Auth")
    \/ \E d \in Names : OnConnectSettles("t1", d, TRUE, NoError)
    \/ \E d \in Names, error \in ErrorPool : OnConnectSettles("t1", d, FALSE, error)
    \/ \E d \in Names : OnAuthenticateSettles("t1", d, TRUE, NoError)
    \/ \E d \in Names, error \in ErrorPool : OnAuthenticateSettles("t1", d, FALSE, error)
    \/ PermissionDeniedSent("t1")
    \/ \E i \in 1..MaxDocuments, ok \in BOOLEAN : OnLoadDocumentSettles(i, ok)
    \/ \E i \in 1..MaxDocuments, ok \in BOOLEAN : AfterLoadDocumentSettles(i, ok)
    \/ SocketClosed("t1")
    \/ \E i \in 1..MaxDocuments : OnDisconnectSettles(i, TRUE)
    \/ \E i \in 1..MaxDocuments : OnStoreDocumentSettles(i, "close", "resolved")
    \/ \E i \in 1..MaxDocuments : AfterStoreDocumentSettles(i, "close", TRUE)

SpecMux == InitMux /\ [][NextMux]_vars

(***************************************************************************)
(* The store pipeline of one attached document, with room for long bursts  *)
(***************************************************************************)

\* Updates the attached transport sends in a run of SpecStore.
MaxUpdates == 10

\* A server without onAuthenticate on which transport t1 sent an Auth message
\* for "doc" and every hook of the handshake resolved: t1 is attached to the
\* loaded document 1, nothing is queued, no timer is set.
InitAttached ==
    /\ inlineHooks = DefaultInlineHooks
    /\ configured = <<>>
    /\ configureCalls = 1
    /\ extensions = <<SyntheticExtension(inlineHooks)>>
    /\ hookRun = RunOf(extensions, "onConfigure", {}, FALSE)
    /\ now = 1
    /\ ws = [t \in Transports |-> IF t = "t1" THEN "open" ELSE "none"]
    /\ connection = [t \in Transports |->
                        [requiresAuthentication |-> FALSE, isAuthenticated |-> t = "t1"]]
    /\ closeIdleConnection = [t \in Transports |-> FALSE]
    /\ documentConnections =
            [t \in Transports |-> IF t = "t1" THEN Put(EmptyMap, "doc", TRUE) ELSE EmptyMap]
    /\ incomingMessageQueue =
            [t \in Transports |-> IF t = "t1" THEN Put(EmptyMap, "doc", <<>>) ELSE EmptyMap]
    /\ connectionEstablishing =
            [t \in Transports |-> IF t = "t1" THEN Put(EmptyMap, "doc", TRUE) ELSE EmptyMap]
    /\ received = [t \in Transports |-> IF t = "t1" THEN 1 ELSE 0]
    /\ onConnectPending = [t \in Transports |-> [d \in Names |-> 0]]
    /\ onAuthenticatePending = [t \in Transports |-> [d \in Names |-> 0]]
    /\ documents = Put(EmptyMap, "doc", 1)
    /\ docs = <<[NewDocument("doc", "t1", "onAuthenticate") EXCEPT
                    !.isLoading = FALSE, !.connections = {"t1"},
                    !.onUpdate = TRUE, !.loading = "loaded"]>>
    /\ timers = EmptyMap
    /\ setUpBy = [t \in Transports |->
                    [d \in Names |-> IF t = "t1" THEN "onAuthenticate" ELSE "none"]]
    /\ arrived = [t \in Transports |-> [d \in Names |-> <<>>]]
    /\ delivered = [t \in Transports |-> [d \in Names |-> <<>>]]
    /\ burst = EmptyMap
    /\ lastStore = EmptyMap
    /\ storeLog = [d \in Names |-> NoStoreLog]
    /\ outbox = [t \in Transports |-> <<>>]
    /\ sendPending = [t \in Transports |-> <<>>]

InitStore == InitAttached /\ logging = {}

NextStore ==
    \/ received["t1"] <= MaxUpdates /\ Receive("t1", "doc", "Sync")
    \/ SocketClosed("t1")
    \/ \E ok \in BOOLEAN : OnDisconnectSettles(1, ok)
    \/ \E kind \in {"update", "close"}, outcome \in {"resolved", "silent", "message"} :
            OnStoreDocumentSettles(1, kind, outcome)
    \/ \E kind \in {"update", "close"}, ok \in BOOLEAN :
            AfterStoreDocumentSettles(1, kind, ok)
    \/ TimerFires("doc")
    \/ Tick

SpecStore == InitStore /\ [][NextStore]_vars

(***************************************************************************)
(* The store pipeline of one attached document under updates with and      *)
(* without an origin Connection, the store history kept                    *)
(***************************************************************************)

\* Updates applied to the document in a run of SpecLocal.
MaxChanges == 3

\* onChange chains started so far.
TotalChanges == SumOver([i \in 1..Len(docs) |-> docs[i].onChange], 1..Len(docs))

\* An update without an origin Connection is applied to a loaded document:
\* the onUpdate callback calls handleDocumentUpdate(document, undefined, ...).
LocalUpdate(i) ==
    /\ i \in 1..Len(docs)
    /\ docs[i].onUpdate
    /\ docs[i].destroyed = 0
    /\ TotalChanges < MaxChanges
    /\ Commit(HandleDocumentUpdate(Cur, i, FALSE))

InitLocal == InitAttached /\ logging = {"stores"}

NextLocal ==
    \/ TotalChanges < MaxChanges /\ Receive("t1", "doc", "Sync")
    \/ LocalUpdate(1)
    \/ SocketClosed("t1")
    \/ \E ok \in BOOLEAN : OnDisconnectSettles(1, ok)
    \/ \E kind \in {"update", "close"}, outcome \in {"resolved", "silent", "message"} :
            OnStoreDocumentSettles(1, kind, outcome)
    \/ \E kind \in {"update", "close"}, ok \in BOOLEAN :
            AfterStoreDocumentSettles(1, kind, ok)
    \/ TimerFires("doc")
    \/ Tick

SpecLocal == InitLocal /\ [][NextLocal]_vars

(***************************************************************************)
(* One transport attached to two documents, whose Connections the          *)
(* application closes by name                                              *)
(***************************************************************************)

\* --------------------------------------------------------------------------
\* SpecLive: one transport and one document name, every hook chain free to
\* resolve or reject, under the scheduling of the event loop: a promise that
\* can settle settles, a timeout that is due fires, a send that was handed to
\* the socket calls back.  What a client does (connect, send, go away) is
\* under no such obligation.
\* --------------------------------------------------------------------------
MaxLiveMessages == 2

\* The steps the event loop owes.
Progress ==
    \/ CloseIdle("t1")
    \/ OnConnectSettles("t1", "doc", TRUE, NoError)
    \/ OnAuthenticateSettles("t1", "doc", TRUE, NoError)
    \/ PermissionDeniedSent("t1")
    \/ \E i \in 1..MaxDocuments, ok \in BOOLEAN : OnLoadDocumentSettles(i, ok)
    \/ \E i \in 1..MaxDocuments, ok \in BOOLEAN : AfterLoadDocumentSettles(i, ok)
    \/ \E i \in 1..MaxDocuments : OnDisconnectSettles(i, TRUE)
    \/ \E i \in 1..MaxDocuments, kind \in {"update", "close"},
          outcome \in {"resolved", "silent", "message"} :
            OnStoreDocumentSettles(i, kind, outcome)
    \/ \E i \in 1..MaxDocuments, kind \in {"update", "close"}, ok \in BOOLEAN :
            AfterStoreDocumentSettles(i, kind, ok)
    \/ TimerFires("doc")
    \/ Tick

NextLive ==
    \/ HandleConnection("t1")
    \/ \E type \in MessageTypes :
          received["t1"] < MaxLiveMessages /\ Receive("t1", "doc", type)
    \/ SocketClosed("t1")
    \/ Progress

SpecLive == Init /\ [][NextLive]_vars /\ WF_vars(Progress)


\* Messages the transport sends in a run of SpecClose, after the two that
\* attached it.
MaxCloseMessages == 1

\* The application calls closeConnections(documentName) for a document that
\* has Connections.
CloseConnectionsCalled(d) ==
    /\ d \in DOMAIN documents
    /\ docs[documents[d]].connections # {}
    /\ Commit(CloseConnections(Cur, d))

\* A server without onAuthenticate on which transport t1 sent an Auth message
\* for "doc" and one for "notes" and every hook of the two handshakes
\* resolved: t1 is attached to the loaded documents 1 and 2.
InitClose ==
    /\ inlineHooks = DefaultInlineHooks
    /\ configured = <<>>
    /\ configureCalls = 1
    /\ extensions = <<SyntheticExtension(inlineHooks)>>
    /\ hookRun = RunOf(extensions, "onConfigure", {}, FALSE)
    /\ now = 1
    /\ ws = [t \in Transports |-> IF t = "t1" THEN "open" ELSE "none"]
    /\ connection = [t \in Transports |->
                        [requiresAuthentication |-> FALSE, isAuthenticated |-> t = "t1"]]
    /\ closeIdleConnection = [t \in Transports |-> FALSE]
    /\ documentConnections =
            [t \in Transports |-> IF t = "t1" THEN [d \in Names |-> TRUE] ELSE EmptyMap]
    /\ incomingMessageQueue =
            [t \in Transports |-> IF t = "t1" THEN [d \in Names |-> <<>>] ELSE EmptyMap]
    /\ connectionEstablishing =
            [t \in Transports |-> IF t = "t1" THEN [d \in Names |-> TRUE] ELSE EmptyMap]
    /\ received = [t \in Transports |-> IF t = "t1" THEN 2 ELSE 0]
    /\ onConnectPending = [t \in Transports |-> [d \in Names |-> 0]]
    /\ onAuthenticatePending = [t \in Transports |-> [d \in Names |-> 0]]
    /\ documents = Put(Put(EmptyMap, "doc", 1), "notes", 2)
    /\ docs = <<[NewDocument("doc", "t1", "onAuthenticate") EXCEPT
                    !.isLoading = FALSE, !.connections = {"t1"},
                    !.onUpdate = TRUE, !.loading = "loaded"],
                [NewDocument("notes", "t1", "onAuthenticate") EXCEPT
                    !.isLoading = FALSE, !.connections = {"t1"},
                    !.onUpdate = TRUE, !.loading = "loaded"]>>
    /\ timers = EmptyMap
    /\ setUpBy = [t \in Transports |->
                    [d \in Names |-> IF t = "t1" THEN "onAuthenticate" ELSE "none"]]
    /\ arrived = [t \in Transports |-> [d \in Names |-> <<>>]]
    /\ delivered = [t \in Transports |-> [d \in Names |-> <<>>]]
    /\ burst = EmptyMap
    /\ lastStore = EmptyMap
    /\ storeLog = [d \in Names |-> NoStoreLog]
    /\ outbox = [t \in Transports |-> <<>>]
    /\ sendPending = [t \in Transports |-> <<>>]
    /\ logging = {}

NextClose ==
    \/ \E d \in Names : CloseConnectionsCalled(d)
    \/ \E d \in Names :
          received["t1"] < 2 + MaxCloseMessages /\ Receive("t1", d, "Auth")
    \/ \E d \in Names : OnConnectSettles("t1", d, TRUE, NoError)
    \/ \E d \in Names : OnAuthenticateSettles("t1", d, TRUE, NoError)
    \/ SocketClosed("t1")
    \/ \E i \in 1..MaxDocuments : OnDisconnectSettles(i, TRUE)
    \/ \E i \in 1..MaxDocuments : OnStoreDocumentSettles(i, "close", "resolved")
    \/ \E i \in 1..MaxDocuments : AfterStoreDocumentSettles(i, "close", TRUE)

SpecClose == InitClose /\ [][NextClose]_vars

(***************************************************************************)
(* Claims about configure() and hooks(), checked under SpecHooks           *)
(***************************************************************************)

\* The first handler of the run that rejects, 0 when none does.
FirstRejecting(run) ==
    IF \E k \in 1..Len(run.handlers) : run.handlers[k] \in run.rejecting
    THEN CHOOSE k \in 1..Len(run.handlers) :
            /\ run.handlers[k] \in run.rejecting
            /\ \A j \in 1..(k - 1) : run.handlers[j] \notin run.rejecting
    ELSE 0

\* C7: in one hooks() call, when the handler of extension k rejects, no later
\* handler is invoked, the callback runs for the extensions before k only, and
\* the returned promise is rejected with the error of k.
C7_RejectionStopsChain ==
    LET k == FirstRejecting(hookRun)
    IN  k > 0 =>
          /\ hookRun.invoked = SubSeq(hookRun.handlers, 1, k)
          /\ hookRun.callbacks =
                IF hookRun.callback THEN SubSeq(hookRun.handlers, 1, k - 1) ELSE <<>>
          /\ hookRun.state = "rejected"
          /\ hookRun.error = hookRun.handlers[k]

\* A run with a callback in which the second of at least three handlers rejected.
C7_Witness ==
    /\ hookRun.callback
    /\ Len(hookRun.handlers) >= 3
    /\ FirstRejecting(hookRun) = 2
    /\ hookRun.state = "rejected"

PoolPriority(name) ==
    PriorityOf(CHOOSE e \in ExtensionPool : e.name = name)

ConfiguredIndex(name) ==
    CHOOSE i \in 1..Len(configured) : configured[i].name = name

\* C8: after configure, a hook invocation runs the handlers of the configured
\* extensions in non-increasing priority order (missing priority = 100, equal
\* priorities in configured order) and the inline handlers after the handlers
\* of every configured extension.
C8_PriorityOrder ==
    (configureCalls >= 1 /\ hookRun.state = "fulfilled") =>
        \A i, j \in 1..Len(hookRun.invoked) :
            LET a == hookRun.invoked[i]
                b == hookRun.invoked[j]
            IN  /\ (i < j /\ a # "inline" /\ b # "inline") =>
                      /\ PoolPriority(a) >= PoolPriority(b)
                      /\ PoolPriority(a) = PoolPriority(b) =>
                            ConfiguredIndex(a) < ConfiguredIndex(b)
                /\ (a = "inline" /\ b # "inline") => j < i

(***************************************************************************)
(* Claims about the kernel, checked under Spec                             *)
(***************************************************************************)

Attached(t, d) == d \in DOMAIN documentConnections[t]

\* C1: with authentication required, setUpNewConnection is reached for a
\* transport and a document name only from the onAuthenticate chain of that
\* transport and name, after it resolved: a transport that is attached, holds
\* a Connection, constructed a Document or had messages delivered is
\* authenticated, and the onConnect chain never starts the set-up.
C1_AttachOnlyAfterAuthentication ==
    \A t \in Transports, d \in Names :
        connection[t].requiresAuthentication =>
            /\ setUpBy[t][d] # "onConnect"
            /\ \A i \in 1..Len(docs) :
                  (docs[i].name = d /\ (docs[i].creator = t \/ t \in docs[i].connections))
                      => connection[t].isAuthenticated
            /\ \A i \in 1..Len(docs) : docs[i].path = "onAuthenticate"
            /\ (Attached(t, d) \/ delivered[t][d] # <<>>) =>
                  /\ setUpBy[t][d] = "onAuthenticate"
                  /\ connection[t].isAuthenticated

\* An authenticated transport is attached and a queued Sync message was replayed.
C1_Witness ==
    \E t \in Transports, d \in Names :
        /\ connection[t].requiresAuthentication
        /\ Attached(t, d)
        /\ \E k \in 1..Len(delivered[t][d]) : delivered[t][d][k].type = "Sync"
        /\ \E i \in 1..Len(docs) : t \in docs[i].connections

\* C2: at most one Document per name: every Document that has a Connection
\* is the registry entry of its name (so all Connections under one name share
\* one Document).
C2_OneDocumentPerName ==
    \A i \in 1..Len(docs) :
        docs[i].connections # {} =>
            /\ docs[i].name \in DOMAIN documents
            /\ documents[docs[i].name] = i

\* C3: the messages received before attach, the Auth message that starts the
\* authentication excepted, are delivered to the Connection once each and in
\* arrival order, before every message received after attach.
C3_ReplayInOrder ==
    \A t \in Transports, d \in Names :
        /\ Attached(t, d) => delivered[t][d] = arrived[t][d]
        /\ ~Attached(t, d) => delivered[t][d] = <<>>
        /\ \A j, k \in 1..Len(delivered[t][d]) :
              j < k => delivered[t][d][j].n < delivered[t][d][k].n

\* Two messages were queued and replayed, and a third came after attach.
C3_Witness ==
    \E t \in Transports, d \in Names :
        /\ Attached(t, d)
        /\ Len(incomingMessageQueue[t][d]) >= 1
        /\ Len(delivered[t][d]) > Len(incomingMessageQueue[t][d])

\* The unsettled onStoreDocument chains of a debounce key.
StoresRunning(name) ==
    LET is == { i \in 1..Len(docs) : docs[i].name = name }
        n == [i \in 1..Len(docs) |->
                docs[i].onStoreDocument.update + docs[i].onStoreDocument.close]
    IN  SumOver(n, is)

\* C4: two runs of the onStoreDocument chain of one debounce key never overlap.
C4_StoreRunsNeverOverlap ==
    \A name \in Names : StoresRunning(name) <= 1

\* C5: onStoreDocument is never invoked for a Document that is loading, a
\* Document whose onLoadDocument rejected is never stored, and a loading
\* Document that the disconnect path destroyed was not stored and is not the
\* registry entry of its name.
C5_NoStoreWhileLoading ==
    \A i \in 1..Len(docs) :
        /\ ~docs[i].storedWhileLoading
        /\ docs[i].isLoading =>
              /\ ~docs[i].stored
              /\ docs[i].onStoreDocument = [update |-> 0, close |-> 0]
              /\ docs[i].afterStoreDocument = [update |-> 0, close |-> 0]
        /\ docs[i].loading = "failed" => (docs[i].isLoading /\ ~docs[i].stored)
        /\ (docs[i].isLoading /\ docs[i].destroyed >= 1) =>
              ~(docs[i].name \in DOMAIN documents /\ documents[docs[i].name] = i)

\* A Document whose load rejected lost its last Connection and was destroyed.
C5_Witness ==
    \E i \in 1..Len(docs) :
        /\ docs[i].loading = "failed"
        /\ docs[i].destroyed >= 1
        /\ docs[i].onDisconnect = 0
        /\ ~docs[i].stored

\* C6: the hook chains of one transport never run concurrently: at most one
\* of its onConnect and onAuthenticate chains is unsettled at any time.
C6_HooksOfTransportSerial ==
    \A t \in Transports :
        SumOver([d \in Names |-> onConnectPending[t][d] + onAuthenticatePending[t][d]],
                Names) <= 1

(***************************************************************************)
(* Claims about the debouncer, checked under SpecStore                     *)
(***************************************************************************)

\* C9: back-to-back debounce calls cannot postpone the function for ever: a
\* pending entry keeps the start of the first call of its burst, its timeout
\* is due no later than start + maxDebounce + debounce, the function of a
\* burst has run by then, and after a run the next call starts afresh.
C9_BoundedPostponement ==
    /\ \A id \in DOMAIN timers :
          /\ id \in DOMAIN burst
          /\ timers[id].start = burst[id].first
          /\ now <= timers[id].deadline
          /\ timers[id].deadline <= burst[id].first + MaxDebounce + Debounce
          /\ burst[id].calls = 1 => timers[id].start = burst[id].last
    /\ \A id \in DOMAIN burst :
          id \notin DOMAIN timers =>
              /\ burst[id].stores >= 1
              /\ id \in DOMAIN lastStore
              /\ burst[id].flushed \/
                    lastStore[id] <= burst[id].first + MaxDebounce + Debounce

\* A burst of rescheduling calls that the maxDebounce threshold ended.
C9_Witness ==
    \E id \in DOMAIN burst :
        /\ id \notin DOMAIN timers
        /\ burst[id].calls >= 3
        /\ ~burst[id].flushed
        /\ lastStore[id] = burst[id].last
        /\ burst[id].last - burst[id].first >= MaxDebounce

\* C10: a burst of updates from a connection that begins with nothing
\* scheduled, reschedules the timeout with every update and lasts less than
\* maxDebounce stores zero times while the timeout is pending and exactly
\* once afterwards, debounce after its last update (a store forced by the
\* last disconnect apart).
C10_BurstStoresOnce ==
    \A id \in DOMAIN burst :
        (burst[id].last - burst[id].first < MaxDebounce /\ ~burst[id].flushed) =>
            IF id \in DOMAIN timers
            THEN /\ burst[id].stores = 0
                 /\ timers[id].deadline = burst[id].last + Debounce
            ELSE /\ burst[id].stores = 1
                 /\ lastStore[id] = burst[id].last + Debounce

\* A burst of at least three updates over several ticks that stored once.
C10_Witness ==
    \E id \in DOMAIN burst :
        /\ id \notin DOMAIN timers
        /\ burst[id].calls >= 3
        /\ burst[id].last - burst[id].first >= Debounce
        /\ burst[id].last - burst[id].first < MaxDebounce
        /\ ~burst[id].flushed
        /\ burst[id].stores = 1

(***************************************************************************)
(* Claims about the last disconnect, checked under SpecStore               *)
(***************************************************************************)

\* C11: when the last Connection of a loaded Document closed while a debounce
\* entry was pending and nobody attached since, onStoreDocument starts at most
\* once after that close (the pending timeout does not add a store of its
\* own), and the Document is destroyed only after that store and its
\* afterStoreDocument have settled.
C11_LastDisconnectStoresOnce ==
    \A i \in 1..Len(docs) :
        (docs[i].closedPending /\ docs[i].connections = {}) =>
            /\ docs[i].storesSinceClose <= 1
            /\ docs[i].destroyed >= 1 =>
                  /\ docs[i].storesSinceClose = 1
                  /\ docs[i].name \notin DOMAIN timers

(***************************************************************************)
(* Claims about failures of the handshake                                  *)
(***************************************************************************)

DeniedByAuthenticate(t) ==
    { k \in 1..Len(outbox[t]) :
        /\ outbox[t][k].kind = "PermissionDenied"
        /\ outbox[t][k].cause = "onAuthenticate" }

\* The closes of transport t made by the callback of the send at index k.
ClosesBy(t, k) ==
    { j \in 1..Len(outbox[t]) : outbox[t][j].kind = "close" /\ outbox[t][j].by = k }

\* C13 as stated: when onAuthenticate rejects, the server sends
\* PermissionDenied with error.reason (or 'permission-denied' if the error has
\* none), and once the send completed (on a socket still open) it closes the
\* transport with error.code (or Forbidden's code if the error has none).
C13_DeniedThenClosed ==
    \A t \in Transports : \A k \in DeniedByAuthenticate(t) :
        LET e == outbox[t][k]
        IN  /\ e.reason = IF e.error.reason = "absent" THEN "permission-denied"
                          ELSE e.error.reason
            /\ e.state \in {"kept", "closed"} =>
                  \E j \in ClosesBy(t, k) :
                      /\ j > k
                      /\ outbox[t][j].code = IF e.error.code = "absent" THEN "Forbidden"
                                             ELSE e.error.code

\* C13 amended: the reason is error.reason, 'permission-denied' for an error
\* without one and Forbidden's reason for a rejection with undefined; the
\* callback of the send closes the transport exactly when no document is
\* attached to it at that moment, with error.code, Forbidden's code for an
\* error without one, for undefined, and for a code the socket refuses; no
\* close of the callback precedes the completion of the send.
C13_DeniedThenClosedUnlessAttached ==
    \A t \in Transports : \A k \in DeniedByAuthenticate(t) :
        LET e == outbox[t][k]
        IN  /\ e.reason = IF ~e.error.isError THEN "Forbidden"
                          ELSE IF e.error.reason = "absent" THEN "permission-denied"
                          ELSE e.error.reason
            /\ e.state = "closed" =>
                  \E j \in ClosesBy(t, k) :
                      /\ j > k
                      /\ outbox[t][j].code =
                            IF e.error.isError /\ e.error.code = "custom" THEN "custom"
                            ELSE "Forbidden"
            /\ e.state \in {"pending", "kept", "gone"} => ClosesBy(t, k) = {}

\* A rejected onAuthenticate whose error carries a reason and a code: its
\* PermissionDenied was sent and the callback closed the transport.
C13_Witness ==
    \E t \in Transports : \E k \in DeniedByAuthenticate(t) :
        /\ outbox[t][k].error = CustomError
        /\ outbox[t][k].state = "closed"
        /\ ClosesBy(t, k) # {}

(***************************************************************************)
(* C14, C15: a rejected onConnect                                          *)
(***************************************************************************)

\* The closes of transport t that a rejected onConnect chain made, as outbox
\* indices.
ClosedByConnect(t) ==
    { k \in 1..Len(outbox[t]) :
        outbox[t][k].kind = "close" /\ outbox[t][k].cause = "onConnect" }

\* C14: when onConnect rejects, the transport is closed with error.code (or
\* Forbidden's), and no Document is created or loaded and no Connection is
\* attached for that transport and document name, also when an Auth message
\* for the name is being processed at the same time.
C14_RejectedConnectSetsUpNothing ==
    \A t \in Transports : \A k \in ClosedByConnect(t) :
        LET e == outbox[t][k]
        IN  /\ e.code = IF e.error.code = "absent" THEN "Forbidden" ELSE e.error.code
            /\ setUpBy[t][e.name] = "none"
            /\ e.name \notin DOMAIN documentConnections[t]
            /\ \A i \in 1..Len(docs) : ~(docs[i].name = e.name /\ docs[i].creator = t)

\* C15: when onConnect rejects, the server sends PermissionDenied for that
\* document name to the transport before it closes the transport, as it does
\* for a rejected onAuthenticate.
C15_DeniedBeforeConnectClose ==
    \A t \in Transports : \A k \in ClosedByConnect(t) :
        \E j \in 1..(k - 1) :
            /\ outbox[t][j].kind = "PermissionDenied"
            /\ outbox[t][j].name = outbox[t][k].name
            /\ outbox[t][j].cause = "onConnect"

(***************************************************************************)
(* C16: what lies between two stores, checked under SpecLocal              *)
(***************************************************************************)

\* C16 as stated: between two successful returns of onStoreDocument for a
\* document name there is an update of the document or an immediate flush of
\* a last disconnect.
C16_EventBetweenReturns ==
    \A d \in Names : ~storeLog[d].unchanged

\* C16 amended: every run of onStoreDocument that the debouncer starts (by
\* its timeout or on reaching maxDebounce) follows an update with an origin
\* Connection that came after the previous start of onStoreDocument for the
\* name; the other runs are the immediate flushes of a last disconnect.
C16_EveryDebouncedStoreFollowsUpdate ==
    \A d \in Names : ~storeLog[d].unprompted

\* Two runs of onStoreDocument for "doc" have started and two have resolved
\* one after the other.
C16_Witness ==
    /\ "doc" \in DOMAIN burst
    /\ burst["doc"].stores >= 2
    /\ storeLog["doc"].returned
    /\ storeLog["doc"].unchanged

(***************************************************************************)
(* C17: the idle-close deadline                                            *)
(***************************************************************************)

\* C17: the idle-close deadline of a transport is cancelled only once an
\* attach has succeeded: an open transport with no document attached, its
\* load pending or failed included, still has its deadline pending and will
\* be closed by it.
C17_IdleDeadlineUntilAttached ==
    \A t \in Transports :
        (ws[t] = "open" /\ DOMAIN documentConnections[t] = {}) => closeIdleConnection[t]

(***************************************************************************)
(* C18, C19, C20: debounce and the store pipeline, checked under SpecLocal *)
(***************************************************************************)

\* C18: in every reachable state, debounce(id, func, true) for any id and any
\* document's store function starts func exactly once within the call and
\* starts nothing else, leaves no entry for id (a pending timeout of id is
\* gone, so what it had scheduled never runs) and leaves the entries of
\* every other id as they were.
C18_ImmediateRunsOnceAndClears ==
    \A id \in Names : \A i \in 1..Len(docs) :
        LET s2 == DebounceOf(Cur, id, [kind |-> "close", document |-> i], TRUE)
        IN  /\ s2.docs[i].onStoreDocument["close"] = docs[i].onStoreDocument["close"] + 1
            /\ s2.docs[i].onStoreDocument["update"] = docs[i].onStoreDocument["update"]
            /\ \A j \in 1..Len(docs) :
                    j # i => s2.docs[j].onStoreDocument = docs[j].onStoreDocument
            /\ id \notin DOMAIN s2.timers
            /\ DOMAIN s2.timers = DOMAIN timers \ {id}
            /\ \A other \in DOMAIN timers \ {id} : s2.timers[other] = timers[other]

\* The last disconnect flushed "doc" while its timeout was pending: the flush
\* is the one store of the burst and no entry is left.
C18_Witness ==
    /\ "doc" \in DOMAIN burst
    /\ burst["doc"].flushed
    /\ burst["doc"].stores = 1
    /\ "doc" \notin DOMAIN timers

\* C19: handleDocumentUpdate without an origin Connection, applied in any
\* reachable state to any document, starts onChange once, leaves this.timers
\* as it was and starts no onStoreDocument; and every step in which such an
\* update is applied (onChange starts and no message was received) leaves
\* this.timers as it was and starts neither onStoreDocument nor
\* afterStoreDocument.
C19_LocalUpdateOnlyRunsOnChange ==
    /\ [](\A i \in 1..Len(docs) :
            LET s2 == HandleDocumentUpdate(Cur, i, FALSE)
            IN  /\ s2.docs[i].onChange = docs[i].onChange + 1
                /\ s2.timers = timers
                /\ s2.docs[i].onStoreDocument = docs[i].onStoreDocument)
    /\ [][\A i \in 1..Len(docs) :
            (docs'[i].onChange = docs[i].onChange + 1 /\ received' = received) =>
                /\ timers' = timers
                /\ docs'[i].onStoreDocument = docs[i].onStoreDocument
                /\ docs'[i].afterStoreDocument = docs[i].afterStoreDocument
                /\ lastStore' = lastStore]_vars

\* An update without an origin Connection was applied, a timeout is pending.
C19_Witness ==
    /\ docs[1].onChange > received["t1"] - 1
    /\ "doc" \in DOMAIN timers

\* C20: a step in which an onStoreDocument chain settles starts
\* afterStoreDocument exactly when the chain resolved or rejected with an
\* error without a message; after an error with a message nothing starts.
C20_AfterStoreUnlessMessage ==
    [][\A i \in 1..Len(docs) : \A kind \in {"update", "close"} :
            docs'[i].onStoreDocument[kind] = docs[i].onStoreDocument[kind] - 1 =>
                docs'[i].afterStoreDocument[kind] =
                    docs[i].afterStoreDocument[kind]
                        + (IF storeLog'[docs[i].name].outcome \in {"resolved", "silent"}
                           THEN 1 ELSE 0)]_vars

\* An onStoreDocument chain was rejected with a message and no
\* afterStoreDocument is pending or has run: the document is still there.
C20_Witness ==
    /\ storeLog["doc"].outcome = "message"
    /\ docs[1].afterStoreDocument["update"] = 0
    /\ docs[1].afterStoreDocument["close"] = 0
    /\ docs[1].stored

(***************************************************************************)
(* C21: the close of one Connection of a transport, checked under          *)
(* SpecClose                                                               *)
(***************************************************************************)

\* C21: in every step in which a document stops being attached on an open
\* transport, the handshake records of that name (attached flag, queue,
\* establishing flag) are gone, so that messageHandler takes the next message
\* for the name as the first of a handshake, the records of the other names
\* are as they were, and the socket is closed exactly if no document remains
\* attached on the transport.
C21_SocketClosedWhenNothingAttached ==
    [][\A t \in Transports : \A d \in DOMAIN documentConnections[t] :
            (ws[t] = "open" /\ d \notin DOMAIN documentConnections'[t]) =>
                /\ d \notin DOMAIN incomingMessageQueue'[t]
                /\ d \notin DOMAIN connectionEstablishing'[t]
                /\ (ws'[t] # "open") <=> (DOMAIN documentConnections'[t] = {})]_vars

\* The Connection of "doc" was closed while "notes" stayed attached: the
\* transport is open and a message for "doc" has started a new handshake.
C21_Witness ==
    /\ ws["t1"] = "open"
    /\ "notes" \in DOMAIN documentConnections["t1"]
    /\ "doc" \notin DOMAIN documentConnections["t1"]
    /\ onConnectPending["t1"]["doc"] = 1

(***************************************************************************)
(* C22 .. C25: the registry under concurrent handshakes and disconnects,   *)
(* checked under Spec                                                      *)
(***************************************************************************)

\* C22: a Document instance is destroyed at most once, and a Document that
\* has an attached Connection has not been removed from the registry or
\* destroyed by the end of some disconnect.
C22_RemovalSparesAttachedDocuments ==
    \A i \in 1..Len(docs) :
        /\ docs[i].destroyed <= 1
        /\ docs[i].connections # {} => docs[i].destroyed = 0

\* C23: a Document that has an attached Connection has finished loading and
\* has its onUpdate handler wired, so that the updates the Connection
\* delivers reach handleDocumentUpdate.
C23_AttachedOnlyWhenLoaded ==
    \A i \in 1..Len(docs) :
        docs[i].connections # {} => (~docs[i].isLoading /\ docs[i].onUpdate)

\* C24: for a transport and a document name, setUpNewConnection is not
\* started by the .then of onConnect once the Auth message path has started
\* it (the transport is authenticated by then), and the transport has at most
\* one Connection under the name.
C24_SetUpStartedOnce ==
    \A t \in Transports, d \in Names :
        /\ setUpBy[t][d] = "onConnect" => ~connection[t].isAuthenticated
        /\ \A i, j \in 1..Len(docs) :
                (/\ docs[i].name = d /\ docs[j].name = d
                 /\ t \in docs[i].connections /\ t \in docs[j].connections) => i = j

\* An attach to the document of name d is in progress: a handshake chain of
\* the name or the load of its document has not settled.
AttachInProgress(d) ==
    \/ \E t \in Transports : onConnectPending[t][d] > 0 \/ onAuthenticatePending[t][d] > 0
    \/ \E i \in 1..Len(docs) :
          docs[i].name = d /\ docs[i].loading \in {"onLoadDocument", "afterLoadDocument"}

\* C25: a registered Document that has no attached Connection, and for whose
\* name no attach is in progress, is eventually removed from the registry.
C25_IdleDocumentEventuallyRemoved ==
    \A d \in Names :
        (/\ d \in DOMAIN documents
         /\ docs[documents[d]].connections = {}
         /\ ~AttachInProgress(d)) ~> (d \notin DOMAIN documents)

(***************************************************************************)
(* C26: configure() called again, checked under SpecHooks                  *)
(***************************************************************************)

\* C26: after one or more configure calls, a hooks() call that no handler
\* rejects invokes the inline handler of the hook exactly once, and invokes
\* it last.
C26_InlineHandlerOncePerInvocation ==
    (configureCalls >= 1 /\ hookRun.name \in inlineHooks /\ hookRun.rejecting = {}) =>
        /\ Cardinality({ k \in 1..Len(hookRun.invoked) : hookRun.invoked[k] = "inline" }) = 1
        /\ hookRun.invoked[Len(hookRun.invoked)] = "inline"

(***************************************************************************)
(* C27: the order of Authenticated and PermissionDenied, checked under     *)
(* SpecMux                                                                 *)
(***************************************************************************)

\* C27: every PermissionDenied a transport is sent for a document name comes
\* from a rejected onAuthenticate chain, and no Authenticated for that name
\* was sent to the transport before it.
C27_NoDenialAfterAuthenticated ==
    \A t \in Transports : \A k \in 1..Len(outbox[t]) :
        outbox[t][k].kind = "PermissionDenied" =>
            /\ outbox[t][k].cause = "onAuthenticate"
            /\ \A j \in 1..(k - 1) :
                  ~(outbox[t][j].kind = "Authenticated"
                       /\ outbox[t][j].name = outbox[t][k].name)
====
